---- MODULE Spec2Model ----
(***************************************************************************)
(* A model of the orchestrated problem solver: the arithmetic sandbox      *)
(* (src/main.py, safe_exec) and the three plan drivers that run the        *)
(* bounded generate / execute / critique loop (solve_complex_query in      *)
(* src/main.py, solve_query_with_steps and solve_query_stream in           *)
(* src/app.py).                                                            *)
(*                                                                         *)
(* Python strings are tuples of one-character strings, so that startswith, *)
(* lower, replace and the numeric regular expression are computed as the   *)
(* code computes them.  Numbers are exact rationals n/d tagged int or      *)
(* float (float rounding is not modelled).  A snippet is the syntax tree   *)
(* ast.parse gives for it, or the marker of a text that does not parse.    *)
(***************************************************************************)
EXTENDS Integers, Sequences, FiniteSets, TLC

\* ------------------------------------------------------------------- state
VARIABLES
  driver,                \* the entry point that runs the query
  pc,                    \* the driver's position
  plan,                  \* the steps of plan["plan"] the for loop has still to take
  step,                  \* the step the for loop is at
  attempt,               \* the while loop's counter
  code,                  \* the snippet of the attempt under way
  output,                \* safe_exec's Outcome for it
  feedback,              \* the feedback text of the last judged attempt
  intermediate_results,  \* the context
  result,                \* how the driver ended for its caller
  stream,                \* the kinds of the events the generator has yielded
  calls,                 \* the calls made for the current step, by callee
  sandbox,               \* what the last safe_exec call did
  verdict,               \* what became of the current step
  failed,                \* the call that raised
  replies,               \* the repertoire the collaborators answer from
  history,               \* the safe_exec calls made so far, with their Outcomes
  llm                    \* the frame of a _call_llm call

vars == <<driver, pc, plan, step, attempt, code, output, feedback, intermediate_results,
          result, stream, calls, sandbox, verdict, failed, replies, history, llm>>

\* what no step of a driver changes: the repertoire, the sandbox's call log
\* and the frame of _call_llm
aside == <<replies, history, llm>>

\* ------------------------------------------------------------------ bounds
\* The longest plan the decomposition returns
MaxPlanLen == 2
\* The most calls of safe_exec made in a row on one context
MaxSandboxCalls == 3

\* ----------------------------------------------------------------- strings
Digits == <<"0","1","2","3","4","5","6","7","8","9">>
UpperCase == <<"A","B","C","D","E","F","G","H","I","J","K","L","M","N","O","P","Q","R","S","T","U","V","W","X","Y","Z">>
LowerCase == <<"a","b","c","d","e","f","g","h","i","j","k","l","m","n","o","p","q","r","s","t","u","v","w","x","y","z">>

IsDigit(c) == \E k \in 1..10 : Digits[k] = c
DigitVal(c) == (CHOOSE k \in 1..10 : Digits[k] = c) - 1

\* str.lower() on one character and on a string
LowerChar(c) == IF \E k \in 1..26 : UpperCase[k] = c
                THEN LowerCase[CHOOSE k \in 1..26 : UpperCase[k] = c]
                ELSE c
Lower(s) == [k \in 1..Len(s) |-> LowerChar(s[k])]

\* str.startswith / str.endswith
StartsWith(s, p) == Len(p) <= Len(s) /\ SubSeq(s, 1, Len(p)) = p
EndsWith(s, p) == Len(p) <= Len(s) /\ SubSeq(s, Len(s) - Len(p) + 1, Len(s)) = p

\* str.replace(old, new): every non-overlapping occurrence, left to right
RECURSIVE Replace(_, _, _)
Replace(s, old, new) ==
  IF s = <<>> THEN <<>>
  ELSE IF old # <<>> /\ StartsWith(s, old)
       THEN new \o Replace(SubSeq(s, Len(old) + 1, Len(s)), old, new)
       ELSE <<Head(s)>> \o Replace(Tail(s), old, new)

\* str(n) of a natural number
RECURSIVE NatStr(_)
NatStr(n) == IF n < 10 THEN <<Digits[n + 1]>> ELSE NatStr(n \div 10) \o <<Digits[(n % 10) + 1]>>

\* length of the longest run of digits at the front of s
RECURSIVE DigitRun(_)
DigitRun(s) == IF s # <<>> /\ IsDigit(Head(s)) THEN 1 + DigitRun(Tail(s)) ELSE 0

\* length of the match of \d+(?:\.\d+)? at the front of s (0: no match)
MatchNumber(s) ==
  LET a == DigitRun(s)
      rest == SubSeq(s, a + 1, Len(s))
      b == IF rest # <<>> /\ Head(rest) = "." THEN DigitRun(Tail(rest)) ELSE 0
  IN IF a = 0 THEN 0 ELSE IF b > 0 THEN a + 1 + b ELSE a

\* re.findall(r'\d+(?:\.\d+)?', s)
RECURSIVE FindNumbers(_)
FindNumbers(s) ==
  IF s = <<>> THEN <<>>
  ELSE LET m == MatchNumber(s)
       IN IF m > 0 THEN <<SubSeq(s, 1, m)>> \o FindNumbers(SubSeq(s, m + 1, Len(s)))
          ELSE FindNumbers(Tail(s))

\* length of the longest run of the letter d at the front of s
RECURSIVE LetterRun(_)
LetterRun(s) == IF s # <<>> /\ Head(s) = "d" THEN 1 + LetterRun(Tail(s)) ELSE 0

\* length of the match of \\d+(?:\\.\\d+)? at the front of s (0: no match): in
\* a raw string the doubled backslash is a literal backslash, so the pattern
\* is a backslash and a run of the letter d, then optionally a backslash, any
\* character but a newline, a backslash and a run of the letter d
MatchEscaped(s) ==
  LET a == IF s # <<>> /\ Head(s) = "\\" THEN LetterRun(Tail(s)) ELSE 0
      rest == SubSeq(s, a + 2, Len(s))
      b == IF Len(rest) >= 4 /\ rest[1] = "\\" /\ rest[2] # "\n" /\ rest[3] = "\\"
           THEN LetterRun(SubSeq(rest, 4, Len(rest))) ELSE 0
  IN IF a = 0 THEN 0 ELSE IF b > 0 THEN 1 + a + 3 + b ELSE 1 + a

\* re.findall(r'\\d+(?:\\.\\d+)?', s)
RECURSIVE FindEscaped(_)
FindEscaped(s) ==
  IF s = <<>> THEN <<>>
  ELSE LET m == MatchEscaped(s)
       IN IF m > 0 THEN <<SubSeq(s, 1, m)>> \o FindEscaped(SubSeq(s, m + 1, Len(s)))
          ELSE FindEscaped(Tail(s))

\* ------------------------------------------------------------------ values
RECURSIVE Gcd(_, _)
Gcd(a, b) == IF b = 0 THEN a ELSE Gcd(b, a % b)
Abs(a) == IF a < 0 THEN -a ELSE a
RECURSIVE Pow10(_)
Pow10(k) == IF k = 0 THEN 1 ELSE 10 * Pow10(k - 1)
RECURSIVE DigitsVal(_)
DigitsVal(s) == IF s = <<>> THEN 0 ELSE 10 * DigitsVal(SubSeq(s, 1, Len(s) - 1)) + DigitVal(s[Len(s)])

\* Python values: int and float as the rational n/d in lowest terms, str, None
IntV(a) == [t |-> "int", n |-> a, d |-> 1, s |-> <<>>]
FloatV(a, b) == LET g == Gcd(Abs(a), b)
                IN [t |-> "float", n |-> a \div g, d |-> b \div g, s |-> <<>>]
StrV(x) == [t |-> "str", n |-> 0, d |-> 1, s |-> x]
NoneV == [t |-> "NoneType", n |-> 0, d |-> 1, s |-> <<>>]
IsNum(v) == v.t \in {"int", "float"}

\* sys.int_info.default_max_str_digits: str() of an int with more decimal
\* digits raises ValueError
INT_MAX_STR_DIGITS == 4300
\* an int of more than INT_MAX_STR_DIGITS digits; its digits are not kept
BigInt == [t |-> "int", n |-> 0, d |-> 0, s |-> <<>>]
\* str(value), print(f"{value}") raise
StrRaises(v) == v = BigInt

\* float(token) raises ValueError on a token that does not start a number
FloatRaises(tok) == tok = <<>> \/ ~IsDigit(Head(tok))

\* float(token) for a token matched by the numeric regular expression
ParseFloat(tok) ==
  LET a == DigitRun(tok)
      frac == IF a < Len(tok) THEN SubSeq(tok, a + 2, Len(tok)) ELSE <<>>
  IN FloatV(DigitsVal(SubSeq(tok, 1, a)) * Pow10(Len(frac)) + DigitsVal(frac), Pow10(Len(frac)))

\* str(value): digits of an int, repr of a float with a finite decimal expansion
RECURSIVE FracStr(_, _)
FracStr(r, d) == IF r = 0 THEN <<>> ELSE <<Digits[((10 * r) \div d) + 1]>> \o FracStr((10 * r) % d, d)
PyStr(v) ==
  CASE v.t = "str" -> v.s
    [] v.t = "NoneType" -> <<"N","o","n","e">>
    [] v.t = "int" -> (IF v.n < 0 THEN <<"-">> ELSE <<>>) \o NatStr(Abs(v.n))
    [] v.t = "float" ->
         (IF v.n < 0 THEN <<"-">> ELSE <<>>) \o NatStr(Abs(v.n) \div v.d) \o <<".">>
         \o (IF Abs(v.n) % v.d = 0 THEN <<"0">> ELSE FracStr(Abs(v.n) % v.d, v.d))

\* --------------------------------------------------------- python operators
\* The outcome of evaluating an expression: a value, or a raised exception
Ok(v) == [ok |-> TRUE, v |-> v, cls |-> "", msg |-> <<>>]
\* cls is the exception's class
Raise(cls, m) == [ok |-> FALSE, v |-> NoneV, cls |-> cls, msg |-> m]

\* A result outside the modelled fragment of Python (a non-integral power, a
\* %-format, what a call returns); no snippet of the model produces it unless
\* the validator lets a disallowed construct through
Unmodelled == [t |-> "unmodelled", n |-> 0, d |-> 1, s |-> <<>>]

\* type(v).__name__
TypeName(v) ==
  CASE v.t = "int" -> <<"i","n","t">> [] v.t = "float" -> <<"f","l","o","a","t">> [] v.t = "str" -> <<"s","t","r">>
    [] v.t = "NoneType" -> <<"N","o","n","e","T","y","p","e">> [] v.t = "bool" -> <<"b","o","o","l">>
    [] v.t = "builtin_function_or_method" -> <<"b","u","i","l","t","i","n","_","f","u","n","c","t","i","o","n","_","o","r","_","m","e","t","h","o","d">>
    [] OTHER -> <<"o","b","j","e","c","t">>

OpSymbol(op) ==
  CASE op = "Add" -> <<"+">> [] op = "Sub" -> <<"-">> [] op = "Mult" -> <<"*">>
    [] op = "Div" -> <<"/">> [] op = "FloorDiv" -> <<"/","/">> [] op = "Mod" -> <<"%">>
    [] op = "Pow" -> <<"*","*"," ","o","r"," ","p","o","w","(",")">>

Unsupported(op, a, b) ==
  Raise("TypeError", <<"u","n","s","u","p","p","o","r","t","e","d"," ","o","p","e","r","a","n","d"," ","t","y","p","e","(","s",")"," ","f","o","r"," ">> \o OpSymbol(op) \o <<":"," ","'">> \o TypeName(a)
        \o <<"'"," ","a","n","d"," ","'">> \o TypeName(b) \o <<"'">>)

\* the numeric result n/d with the type Python gives it
MkNum(ty, n, d) == IF ty = "int" THEN IntV(n \div d) ELSE FloatV(n, d)

RECURSIVE IntPow(_, _)
IntPow(b, e) == IF e = 0 THEN 1 ELSE b * IntPow(b, e - 1)

RECURSIVE Repeat(_, _)
Repeat(s, k) == IF k <= 0 THEN <<>> ELSE s \o Repeat(s, k - 1)

\* int and float arithmetic (BINARY_ADD ... BINARY_POWER on numbers)
NumBinOp(op, a, b) ==
  LET ty == IF a.t = "int" /\ b.t = "int" THEN "int" ELSE "float"
      sg == IF b.n < 0 THEN -1 ELSE 1
      \* floor(a / b) for b # 0
      q == (a.n * b.d * sg) \div (a.d * Abs(b.n))
  IN CASE a = BigInt \/ b = BigInt -> Ok(Unmodelled)
       [] op = "Add" -> Ok(MkNum(ty, a.n * b.d + b.n * a.d, a.d * b.d))
       [] op = "Sub" -> Ok(MkNum(ty, a.n * b.d - b.n * a.d, a.d * b.d))
       [] op = "Mult" -> Ok(MkNum(ty, a.n * b.n, a.d * b.d))
       [] op = "Div" ->
            IF b.n = 0
            THEN Raise("ZeroDivisionError", IF ty = "int" THEN <<"d","i","v","i","s","i","o","n"," ","b","y"," ","z","e","r","o">> ELSE <<"f","l","o","a","t"," ","d","i","v","i","s","i","o","n"," ","b","y"," ","z","e","r","o">>)
            ELSE Ok(FloatV(a.n * b.d * sg, a.d * Abs(b.n)))
       [] op = "FloorDiv" ->
            IF b.n = 0
            THEN Raise("ZeroDivisionError", IF ty = "int" THEN <<"i","n","t","e","g","e","r"," ","d","i","v","i","s","i","o","n"," ","o","r"," ","m","o","d","u","l","o"," ","b","y"," ","z","e","r","o">>
                       ELSE <<"f","l","o","a","t"," ","f","l","o","o","r"," ","d","i","v","i","s","i","o","n"," ","b","y"," ","z","e","r","o">>)
            ELSE Ok(MkNum(ty, q, 1))
       [] op = "Mod" ->
            IF b.n = 0
            THEN Raise("ZeroDivisionError", IF ty = "int" THEN <<"i","n","t","e","g","e","r"," ","m","o","d","u","l","o"," ","b","y"," ","z","e","r","o">> ELSE <<"f","l","o","a","t"," ","m","o","d","u","l","o">>)
            ELSE Ok(MkNum(ty, a.n * b.d - q * b.n * a.d, a.d * b.d))
       [] op = "Pow" ->
            IF b.d # 1 THEN Ok(Unmodelled)
            ELSE IF ty = "int" /\ a.n = 10 /\ b.n >= INT_MAX_STR_DIGITS THEN Ok(BigInt)
            ELSE IF b.n >= 0
                 THEN Ok(MkNum(ty, IntPow(a.n, b.n), IntPow(a.d, b.n)))
                 ELSE IF a.n = 0
                      THEN Raise("ZeroDivisionError", <<"0",".","0"," ","c","a","n","n","o","t"," ","b","e"," ","r","a","i","s","e","d"," ","t","o"," ","a"," ","n","e","g","a","t","i","v","e"," ","p","o","w","e","r">>)
                      ELSE Ok(FloatV(IntPow(a.d, -b.n) * (IF a.n < 0 /\ (-b.n) % 2 = 1 THEN -1 ELSE 1),
                                     IntPow(Abs(a.n), -b.n)))

\* a binary operator applied to two values
BinOp(op, a, b) ==
  CASE IsNum(a) /\ IsNum(b) -> NumBinOp(op, a, b)
    [] op = "Add" /\ a.t = "str" ->
         IF b.t = "str" THEN Ok(StrV(a.s \o b.s))
         ELSE Raise("TypeError", <<"c","a","n"," ","o","n","l","y"," ","c","o","n","c","a","t","e","n","a","t","e"," ","s","t","r"," ","(","n","o","t"," ","\"">> \o TypeName(b) \o <<"\"",")"," ","t","o"," ","s","t","r">>)
    [] op = "Mult" /\ a.t = "str" ->
         IF b.t = "int" THEN Ok(StrV(Repeat(a.s, b.n)))
         ELSE Raise("TypeError", <<"c","a","n","'","t"," ","m","u","l","t","i","p","l","y"," ","s","e","q","u","e","n","c","e"," ","b","y"," ","n","o","n","-","i","n","t"," ","o","f"," ","t","y","p","e"," ","'">> \o TypeName(b) \o <<"'">>)
    [] op = "Mult" /\ b.t = "str" /\ a.t # "str" ->
         IF a.t = "int" THEN Ok(StrV(Repeat(b.s, a.n)))
         ELSE Raise("TypeError", <<"c","a","n","'","t"," ","m","u","l","t","i","p","l","y"," ","s","e","q","u","e","n","c","e"," ","b","y"," ","n","o","n","-","i","n","t"," ","o","f"," ","t","y","p","e"," ","'">> \o TypeName(a) \o <<"'">>)
    [] op = "Mod" /\ a.t = "str" ->
         IF \E k \in 1..Len(a.s) : a.s[k] = "%" THEN Ok(Unmodelled)
         ELSE Raise("TypeError", <<"n","o","t"," ","a","l","l"," ","a","r","g","u","m","e","n","t","s"," ","c","o","n","v","e","r","t","e","d"," ","d","u","r","i","n","g"," ","s","t","r","i","n","g"," ","f","o","r","m","a","t","t","i","n","g">>)
    [] OTHER -> Unsupported(op, a, b)

\* unary minus
USub(a) ==
  IF a = BigInt THEN Ok(Unmodelled)
  ELSE IF IsNum(a) THEN Ok(MkNum(a.t, -a.n, a.d))
  ELSE Raise("TypeError", <<"b","a","d"," ","o","p","e","r","a","n","d"," ","t","y","p","e"," ","f","o","r"," ","u","n","a","r","y"," ","-",":"," ","'">> \o TypeName(a) \o <<"'">>)

\* ------------------------------------------------------------ syntax trees
\* The nodes of Python's ast module, with the fields ast.iter_child_nodes visits
Name(id, ctx) == [k |-> "Name", id |-> id, ctx |-> [k |-> ctx]]
Constant(v) == [k |-> "Constant", value |-> v]
BinOpNode(l, op, r) == [k |-> "BinOp", left |-> l, op |-> [k |-> op], right |-> r]
UnaryOpNode(op, e) == [k |-> "UnaryOp", op |-> [k |-> op], operand |-> e]
Call(f, args) == [k |-> "Call", func |-> f, args |-> args]
Attribute(v, attr) == [k |-> "Attribute", value |-> v, attr |-> attr, ctx |-> [k |-> "Load"]]
Assign(targets, v) == [k |-> "Assign", targets |-> targets, value |-> v]
ExprStmt(v) == [k |-> "Expr", value |-> v]
Module(body) == [k |-> "Module", body |-> body]
\* a text ast.parse refuses, with the message of its SyntaxError
Unparsable(m) == [k |-> "SyntaxError", msg |-> m]

\* ast.iter_child_nodes(node), in field order
Children(node) ==
  CASE node.k = "Module" -> node.body
    [] node.k = "Assign" -> node.targets \o <<node.value>>
    [] node.k = "Expr" -> <<node.value>>
    [] node.k = "Name" -> <<node.ctx>>
    [] node.k = "BinOp" -> <<node.left, node.op, node.right>>
    [] node.k = "UnaryOp" -> <<node.op, node.operand>>
    [] node.k = "Call" -> <<node.func>> \o node.args
    [] node.k = "Attribute" -> <<node.value, node.ctx>>
    [] OTHER -> <<>>

\* ast.walk(node): breadth first, the node itself first
RECURSIVE WalkQueue(_)
WalkQueue(todo) ==
  IF todo = <<>> THEN <<>>
  ELSE <<Head(todo)>> \o WalkQueue(Tail(todo) \o Children(Head(todo)))
\* a walk that stops at the node's own children
WalkShallow(node) == <<node>> \o Children(node)
Walk(node) == WalkQueue(<<node>>)

\* type(node).__name__
NodeName(node) ==
  CASE node.k = "Call" -> <<"C","a","l","l">> [] node.k = "Attribute" -> <<"A","t","t","r","i","b","u","t","e">>
    [] node.k = "Constant" -> <<"C","o","n","s","t","a","n","t">> [] node.k = "Expr" -> <<"E","x","p","r">>
    [] node.k = "UAdd" -> <<"U","A","d","d">> [] node.k = "Module" -> <<"M","o","d","u","l","e">>
    [] node.k = "Assign" -> <<"A","s","s","i","g","n">> [] node.k = "Name" -> <<"N","a","m","e">>
    [] node.k = "BinOp" -> <<"B","i","n","O","p">> [] node.k = "UnaryOp" -> <<"U","n","a","r","y","O","p">>
    [] OTHER -> <<"A","S","T">>

\* ------------------------------------------------------------- the sandbox
MAX_CRITIQUE_ATTEMPTS == 3

_ALLOWED_AST_NODES ==
  {"Expression", "Module", "Assign", "Load", "Store", "BinOp", "UnaryOp", "Num", "Name",
   "Add", "Sub", "Mult", "Div", "FloorDiv", "Pow", "Mod", "USub"}

\* isinstance(child, classes); ast.Num matches a Constant holding an int or a
\* float (not a bool, a str or None)
IsInstance(child, classes) ==
  \/ child.k \in classes
  \/ "Num" \in classes /\ child.k = "Constant" /\ child.value.t \in {"int", "float"}

\* _validate_ast: the ValueError raised for the first node of the walk that is
\* not allowed, or no exception
_validate_ast(node) ==
  LET w == Walk(node)
      bad == {j \in 1..Len(w) : ~IsInstance(w[j], _ALLOWED_AST_NODES)}
  IN IF bad = {} THEN Ok(NoneV)
     ELSE Raise("ValueError", <<"D","i","s","a","l","l","o","w","e","d"," ","P","y","t","h","o","n"," ","s","y","n","t","a","x",":"," ">>
                \o NodeName(w[CHOOSE j \in bad : \A m \in bad : j <= m]))

\* names exec finds in builtins when neither locals nor globals bind them
BuiltinNames == {<<"a","b","s">>, <<"_","_","i","m","p","o","r","t","_","_">>}
BuiltinV(id) == [t |-> "builtin_function_or_method", n |-> 0, d |-> 1, s |-> id]

\* the value of an expression in a scope (a function from names to values)
RECURSIVE Eval(_, _)
Eval(e, scope) ==
  CASE e.k = "Constant" -> Ok(e.value)
    [] e.k = "Name" ->
         IF e.id \in DOMAIN scope THEN Ok(scope[e.id])
         ELSE IF e.id \in BuiltinNames THEN Ok(BuiltinV(e.id))
         ELSE Raise("NameError", <<"n","a","m","e"," ","'">> \o e.id \o <<"'"," ","i","s"," ","n","o","t"," ","d","e","f","i","n","e","d">>)
    [] e.k = "BinOp" ->
         LET l == Eval(e.left, scope)
         IN IF ~l.ok THEN l
            ELSE LET r == Eval(e.right, scope)
                 IN IF ~r.ok THEN r ELSE BinOp(e.op.k, l.v, r.v)
    [] e.k = "UnaryOp" ->
         LET x == Eval(e.operand, scope)
         IN IF ~x.ok THEN x ELSE IF e.op.k = "USub" THEN USub(x.v) ELSE Ok(Unmodelled)
    [] OTHER -> Ok(Unmodelled)

\* binding the targets of an assignment, left to right
RECURSIVE Bind(_, _, _)
Bind(targets, v, scope) ==
  IF targets = <<>> THEN scope
  ELSE LET id == Head(targets).id
       IN Bind(Tail(targets), v,
               [x \in DOMAIN scope \cup {id} |-> IF x = id THEN v ELSE scope[x]])

\* exec of the statements of a module body: the scope they leave, the number of
\* statements that ran to their end (ran), and the exception that stopped them
RECURSIVE ExecBody(_, _, _)
ExecBody(body, scope, ran) ==
  IF body = <<>> THEN [ok |-> TRUE, cls |-> "", msg |-> <<>>, scope |-> scope, ran |-> ran]
  ELSE LET st == Head(body)
           x == Eval(st.value, scope)
       IN IF ~x.ok THEN [ok |-> FALSE, cls |-> x.cls, msg |-> x.msg, scope |-> scope, ran |-> ran]
          ELSE ExecBody(Tail(body),
                        IF st.k = "Assign" THEN Bind(st.targets, x.v, scope) ELSE scope,
                        ran + 1)

RESULT == <<"r","e","s","u","l","t">>
EXECUTION_ERROR == <<"E","X","E","C","U","T","I","O","N","_","E","R","R","O","R">>

\* a scope whose result binding is left as the call before set it
LocalScopeStale(context) ==
  [x \in DOMAIN context \cup {RESULT} |-> IF x = RESULT THEN output ELSE context[x]]

\* local_scope = dict(context); local_scope["result"] = None
LocalScope(context) ==
  [x \in DOMAIN context \cup {RESULT} |-> IF x = RESULT THEN NoneV ELSE context[x]]

\* exec run on the caller's dict itself
ContextAfterAliased(context, local_scope) == local_scope

\* what the caller's dict holds once exec has run on local_scope: exec writes
\* to the copy, so the caller's dict is as it was
ContextAfter(context, local_scope) == context

\* ast.parse(code_str, mode="exec")
Parse(code_str) == IF code_str.k = "SyntaxError" THEN Raise("SyntaxError", code_str.msg) ELSE Ok(code_str)

\* the except clause: f"EXECUTION_ERROR: {exc}"
ErrorOutcome(msg) == StrV(EXECUTION_ERROR \o <<":"," ">> \o msg)

\* the exception classes `except Exception` catches (every class the sandbox
\* can raise derives from Exception)
CaughtClasses == {"SyntaxError", "ValueError", "NameError", "ZeroDivisionError", "TypeError"}
\* an except clause for the validator's ValueError alone
CatchesValueError(cls) == cls = "ValueError"
Catches(cls) == cls \in CaughtClasses

\* safe_exec, step by step.  out: the returned Outcome; fault: an exception was
\* raised inside the try block; raised: it left the function uncaught; ran: the
\* number of statements exec ran; context: the caller's dict after the call
SafeExecRun(code_str, context) ==
  LET tree == Parse(code_str)
      valid == IF tree.ok THEN _validate_ast(tree.v) ELSE tree
      run == IF valid.ok
             THEN ExecBody(tree.v.body, LocalScope(context), 0)
             ELSE [ok |-> FALSE, cls |-> valid.cls, msg |-> valid.msg,
                   scope |-> LocalScope(context), ran |-> 0]
  IN [out |-> IF run.ok THEN run.scope[RESULT] ELSE ErrorOutcome(run.msg),
      fault |-> ~run.ok,
      raised |-> ~run.ok /\ ~Catches(run.cls),
      ran |-> run.ran,
      context |-> IF valid.ok THEN ContextAfter(context, run.scope) ELSE context]

safe_exec(code_str, context) == SafeExecRun(code_str, context).out

\* ------------------------------------------------------- keys and markers
FAILED_TO_REFINE == StrV(<<"F","A","I","L","E","D","_","T","O","_","R","E","F","I","N","E">>)
LAST_FEEDBACK == <<"l","a","s","t","_","f","e","e","d","b","a","c","k">>
EXPECTED_CORRECTION == <<"e","x","p","e","c","t","e","d","_","c","o","r","r","e","c","t","i","o","n">>

\* f"step_{num}_result"
StepKey(num) == <<"s","t","e","p","_">> \o NatStr(num) \o <<"_","r","e","s","u","l","t">>

\* a dict with no key, and d[k] = v
EmptyDict == [z \in {} |-> NoneV]
DictSet(d, k, v) == [z \in DOMAIN d \cup {k} |-> IF z = k THEN v ELSE d[z]]

\* ---------------------------------------------------------- initial values
NoCode == Module(<<>>)
NoText == <<>>
NoCalls == [generate |-> 0, safe_exec |-> 0, critique |-> 0, synthesize |-> 0]
NoRun == [ran |-> 0, fault |-> FALSE, raised |-> FALSE]

NoLlm == [chosen_model |-> "", response_format |-> FALSE, stream |-> FALSE, attempt |-> 0,
          requests |-> <<>>, slept |-> 0]

NoStep == [step_num |-> 0, type |-> "", description |-> <<>>]

\* ----------------------------------------------- the collaborators' replies
\* result = 2 + 3 * 4
CodeArith ==
  Module(<<Assign(<<Name(RESULT, "Store")>>,
                  BinOpNode(Constant(IntV(2)), "Add",
                            BinOpNode(Constant(IntV(3)), "Mult", Constant(IntV(4)))))>>)
\* x = 1
\* result = __import__('os').system('x')
CodeOsCall ==
  Module(<<Assign(<<Name(<<"x">>, "Store")>>, Constant(IntV(1))),
           Assign(<<Name(RESULT, "Store")>>,
                  Call(Attribute(Call(Name(<<"_","_","i","m","p","o","r","t","_","_">>, "Load"), <<Constant(StrV(<<"o","s">>))>>),
                                 <<"s","y","s","t","e","m">>),
                       <<Constant(StrV(<<"x">>))>>))>>)
\* x = 5
CodeNoResult == Module(<<Assign(<<Name(<<"x">>, "Store")>>, Constant(IntV(5)))>>)
\* result = 1 / 0
CodeDivZero ==
  Module(<<Assign(<<Name(RESULT, "Store")>>, BinOpNode(Constant(IntV(1)), "Div", Constant(IntV(0))))>>)
\* result = y + 1
CodeUndefined ==
  Module(<<Assign(<<Name(RESULT, "Store")>>, BinOpNode(Name(<<"y">>, "Load"), "Add", Constant(IntV(1))))>>)
\* result = step_1_result - 1
CodeMinusOne ==
  Module(<<Assign(<<Name(RESULT, "Store")>>,
                  BinOpNode(Name(StepKey(1), "Load"), "Sub", Constant(IntV(1))))>>)
\* result = (
CodeUnparsable == Unparsable(<<"'","(","'"," ","w","a","s"," ","n","e","v","e","r"," ","c","l","o","s","e","d"," ","(","<","u","n","k","n","o","w","n",">",","," ","l","i","n","e"," ","1",")">>)
\* result = 5
\* x = 7 // 0
CodeLateFault ==
  Module(<<Assign(<<Name(RESULT, "Store")>>, Constant(IntV(5))),
           Assign(<<Name(<<"x">>, "Store")>>, BinOpNode(Constant(IntV(7)), "FloorDiv", Constant(IntV(0))))>>)
\* step_1_result = 7
\* last_feedback = 0
\* result = step_1_result * 2
CodeOverwrite ==
  Module(<<Assign(<<Name(StepKey(1), "Store")>>, Constant(IntV(7))),
           Assign(<<Name(LAST_FEEDBACK, "Store")>>, Constant(IntV(0))),
           Assign(<<Name(RESULT, "Store")>>,
                  BinOpNode(Name(StepKey(1), "Load"), "Mult", Constant(IntV(2))))>>)
\* result = 'a'
CodeString == Module(<<Assign(<<Name(RESULT, "Store")>>, Constant(StrV(<<"a">>)))>>)
\* result = 3
\* print(result)
CodePrint ==
  Module(<<Assign(<<Name(RESULT, "Store")>>, Constant(IntV(3))),
           ExprStmt(Call(Name(<<"p","r","i","n","t">>, "Load"), <<Name(RESULT, "Load")>>))>>)
\* result = +1
CodeUnaryPlus ==
  Module(<<Assign(<<Name(RESULT, "Store")>>, UnaryOpNode("UAdd", Constant(IntV(1))))>>)
\* result = -7 // 2 + 7 % 3 ** 2
CodeOperators ==
  Module(<<Assign(<<Name(RESULT, "Store")>>,
                  BinOpNode(BinOpNode(UnaryOpNode("USub", Constant(IntV(7))), "FloorDiv", Constant(IntV(2))),
                            "Add",
                            BinOpNode(Constant(IntV(7)), "Mod",
                                      BinOpNode(Constant(IntV(3)), "Pow", Constant(IntV(2))))))>>)
\* result = expected_correction / 2
CodeHalf ==
  Module(<<Assign(<<Name(RESULT, "Store")>>,
                  BinOpNode(Name(EXPECTED_CORRECTION, "Load"), "Div", Constant(IntV(2))))>>)
\* result = step_1_result
CodeCopyStep == Module(<<Assign(<<Name(RESULT, "Store")>>, Name(StepKey(1), "Load"))>>)
\* result = last_feedback
CodeCopyFeedback == Module(<<Assign(<<Name(RESULT, "Store")>>, Name(LAST_FEEDBACK, "Load"))>>)

\* result = 10 ** 5000
CodeBigInt ==
  Module(<<Assign(<<Name(RESULT, "Store")>>,
                  BinOpNode(Constant(IntV(10)), "Pow", Constant(IntV(5000))))>>)

\* what generate_code_for_step may return: an everyday repertoire, and one of
\* rarer snippets
PlainSnippets == {CodeArith, CodeOsCall, CodeNoResult}
EdgeSnippets == {CodeNoResult, CodeCopyFeedback, CodeCopyStep, CodeBigInt}
Snippets == IF replies = "edge" THEN EdgeSnippets ELSE PlainSnippets

FbCorrect == <<"C","o","r","r","e","c","t",".">>
FbCorrectLower == <<"c","o","r","r","e","c","t",","," ","r","o","u","n","d","e","d">>
FbIncorrectNumber == <<"I","n","c","o","r","r","e","c","t",":"," ","s","h","o","u","l","d"," ","b","e"," ","4","2"," ","n","o","t"," ","4","1",".","5">>
FbNotCorrect == <<"N","o","t"," ","c","o","r","r","e","c","t">>

FbErrorLike == <<"E","X","E","C","U","T","I","O","N","_","E","R","R","O","R",":"," ","u","n","c","l","e","a","r">>
FbIncorrectWords == <<"I","n","c","o","r","r","e","c","t",":"," ","w","r","o","n","g"," ","u","n","i","t","s">>
FbIncorrectEscaped == <<"I","n","c","o","r","r","e","c","t",":"," ","u","s","e"," ","\\","d">>

\* what self_critique_output may return
PlainFeedbacks == {FbCorrect, FbCorrectLower, FbIncorrectNumber, FbNotCorrect}
EdgeFeedbacks == {FbCorrect, FbErrorLike, FbIncorrectNumber, FbIncorrectWords, FbIncorrectEscaped}
Feedbacks == IF replies = "edge" THEN EdgeFeedbacks ELSE PlainFeedbacks

Kinds == {"calculation", "data_lookup", "final_synthesis", "estimate"}
\* the step numbers a plan uses: two, so that steps may share one or differ
Ordinals == {1, 2}
Steps == [step_num : Ordinals, type : Kinds, description : {<<"d">>}]
\* what decompose_problem may return under the key "plan"; the rarer replies
\* are met on plans of one step
PlainPlans == UNION {[1..k -> Steps] : k \in 0..MaxPlanLen}
EdgePlans ==
  {<<s>> : s \in {z \in Steps : z.step_num = 1 /\ z.type \in {"calculation", "final_synthesis"}}}
  \cup {<<[step_num |-> 1, type |-> "calculation", description |-> <<"d">>],
          [step_num |-> 2, type |-> "calculation", description |-> <<"d">>]>>}
Plans == IF replies = "edge" THEN EdgePlans ELSE PlainPlans

Drivers == {"solve_complex_query", "solve_query_with_steps", "solve_query_stream"}

\* ------------------------------------------------------ the code's decisions
\* a loop test that lets one more attempt through
LoopContinuesOffByOne(a) == a <= MAX_CRITIQUE_ATTEMPTS
\* while attempt < MAX_CRITIQUE_ATTEMPTS
LoopContinues(a) == a < MAX_CRITIQUE_ATTEMPTS

\* if s_type in {"calculation", "data_lookup"}; the streaming generator has no
\* such test and runs the loop for every step
EntersRetryLoop(d, s_type) ==
  IF d = "solve_query_stream" THEN TRUE ELSE s_type \in {"calculation", "data_lookup"}

\* a test for the bare marker instead of the marker as a prefix
IsExecutionErrorExact(out) == out.t = "str" /\ out.s = EXECUTION_ERROR
\* isinstance(output, str) and output.startswith("EXECUTION_ERROR")
IsExecutionError(out) == out.t = "str" /\ StartsWith(out.s, EXECUTION_ERROR)

\* f"Execution failed: {output}"
ExecutionFailed(out) == <<"E","x","e","c","u","t","i","o","n"," ","f","a","i","l","e","d",":"," ">> \o PyStr(out)

\* the test without lower()
IsAcceptedCaseSensitive(fb) == StartsWith(fb, <<"c","o","r","r","e","c","t">>)
\* feedback.lower().startswith("correct")
IsAccepted(fb) == StartsWith(Lower(fb), <<"c","o","r","r","e","c","t">>)

\* an accepted attempt without the break: back to the loop test
AfterAcceptNoBreak == "while"
\* where control goes after an accepted attempt: break leaves the while loop
\* without its else clause
AfterAccept == "for"

\* numbers = re.findall(..., feedback): the two blocking drivers look for
\* \d+(?:\.\d+)?, the streaming generator for \\d+(?:\\.\\d+)?
Numbers(d, fb) == IF d = "solve_query_stream" THEN FindEscaped(fb) ELSE FindNumbers(fb)

\* if feedback.startswith("Incorrect:") and numbers
HasCorrection(d, fb) == StartsWith(fb, <<"I","n","c","o","r","r","e","c","t",":">>) /\ Numbers(d, fb) # <<>>

\* float(numbers[-1]) raises
CorrectionRaises(d, fb) ==
  HasCorrection(d, fb) /\ FloatRaises(Numbers(d, fb)[Len(Numbers(d, fb))])

\* the context after a rejected attempt: last_feedback, and expected_correction
\* when the feedback starts with "Incorrect:" and holds a number
Rejected(d, ctx, fb) ==
  LET withFb == DictSet(ctx, LAST_FEEDBACK, StrV(fb))
      numbers == Numbers(d, fb)
  IN IF HasCorrection(d, fb) /\ ~CorrectionRaises(d, fb)
     THEN DictSet(withFb, EXPECTED_CORRECTION, ParseFloat(numbers[Len(numbers)]))
     ELSE withFb

\* the re-keyed step results with the sentinel left in
ExpectedValuesKeepFailed(ctx) ==
  LET keys == {key \in DOMAIN ctx : StartsWith(key, <<"s","t","e","p","_">>) /\ EndsWith(key, <<"_","r","e","s","u","l","t">>)}
  IN [z \in {Replace(key, <<"_","r","e","s","u","l","t">>, <<>>) : key \in keys} |->
        ctx[CHOOSE key \in keys : Replace(key, <<"_","r","e","s","u","l","t">>, <<>>) = z]]

\* expected_values: the step results that are not the sentinel, re-keyed
ExpectedValues(ctx) ==
  LET keys == {key \in DOMAIN ctx : StartsWith(key, <<"s","t","e","p","_">>) /\ EndsWith(key, <<"_","r","e","s","u","l","t">>)
                                    /\ ctx[key] # FAILED_TO_REFINE}
  IN [z \in {Replace(key, <<"_","r","e","s","u","l","t">>, <<>>) : key \in keys} |->
        ctx[CHOOSE key \in keys : Replace(key, <<"_","r","e","s","u","l","t">>, <<>>) = z]]

\* the query the driver was given
QUERY == <<"q">>
\* a parameter left at its default None
NotGiven == [k |-> "None"]

\* self_critique_output(desc, str(output), query, expected_values): the
\* arguments of the call; no driver gives the fifth parameter, code_str
CritiqueArgs(desc, out, ctx) ==
  [step_description |-> desc, output |-> PyStr(out), original_query |-> QUERY,
   expected_values |-> ExpectedValues(ctx), code_str |-> NotGiven]

\* the events the streaming generator yields (the other drivers yield none);
\* a run of attempt events is kept as one entry
Yield(d, kinds) ==
  IF d # "solve_query_stream" THEN stream
  ELSE IF stream # <<>> /\ kinds = <<"attempt">> /\ stream[Len(stream)] = "attempt" THEN stream
  ELSE stream \o kinds

\* how a raised collaborator failure reaches the driver's caller
\*   solve_complex_query: no handler, the exception leaves the function
\*   solve_query_with_steps: solve() answers {'error': ...} with status 500
\*   solve_query_stream: the exception leaves the generator
Raised(d) == IF d = "solve_query_with_steps" THEN "error_response" ELSE "exception"

\* ----------------------------------------------------------------- actions
Init ==
  /\ driver \in Drivers
  /\ pc = "decompose"
  /\ plan = <<>>
  /\ step = NoStep
  /\ attempt = 0
  /\ code = NoCode
  /\ output = NoneV
  /\ feedback = NoText
  /\ intermediate_results = EmptyDict
  /\ result = "running"
  /\ stream = <<>>
  /\ calls = NoCalls
  /\ sandbox = NoRun
  /\ verdict = "none"
  /\ failed = "none"
  /\ replies = "plain"
  /\ history = {}
  /\ llm = NoLlm

\* plan = decompose_problem(query) returns a plan
Decompose ==
  /\ pc = "decompose"
  /\ \E p \in Plans : plan' = p
  /\ intermediate_results' = EmptyDict
  /\ stream' = Yield(driver, <<"plan">>)
  /\ pc' = "for"
  /\ UNCHANGED <<sandbox, driver, step, attempt, code, output, feedback, result, calls, verdict, failed>>
  /\ UNCHANGED aside

\* decompose_problem raises
DecomposeFails ==
  /\ pc = "decompose"
  /\ failed' = "decompose"
  /\ stream' = Yield(driver, <<"error", "[DONE]">>)
  /\ result' = IF driver = "solve_query_stream" THEN "returned" ELSE Raised(driver)
  /\ pc' = "done"
  /\ UNCHANGED <<sandbox, driver, plan, step, attempt, code, output, feedback, intermediate_results,
                 calls, verdict>>
  /\ UNCHANGED aside

\* the for loop takes the next step of the plan
NextStep ==
  /\ pc = "for"
  /\ plan # <<>>
  /\ step' = Head(plan)
  /\ plan' = Tail(plan)
  /\ calls' = NoCalls
  /\ sandbox' = NoRun
  /\ code' = NoCode
  /\ output' = NoneV
  /\ feedback' = NoText
  /\ IF EntersRetryLoop(driver, Head(plan).type)
     THEN verdict' = "retrying" /\ pc' = "while"
     ELSE verdict' = "skipped" /\ pc' = "for"
  /\ attempt' = 0
  /\ UNCHANGED <<driver, intermediate_results, result, stream, failed>>
  /\ UNCHANGED aside

\* the end of one attempt: the feedback is judged and the context updated
Judge(fb, out, ctx) ==
  /\ feedback' = fb
  /\ code' = NoCode
  /\ output' = NoneV
  /\ stream' = Yield(driver, <<"attempt">>)
  /\ IF IsAccepted(fb)
     THEN /\ intermediate_results' = DictSet(ctx, StepKey(step.step_num), out)
          /\ verdict' = "accepted"
          /\ attempt' = attempt
          /\ pc' = AfterAccept
          /\ UNCHANGED <<result, failed>>
     ELSE /\ intermediate_results' = Rejected(driver, ctx, fb)
          /\ verdict' = "retrying"
          /\ IF CorrectionRaises(driver, fb)
             THEN /\ attempt' = attempt
                  /\ pc' = "done"
                  /\ result' = Raised(driver)
                  /\ failed' = "float"
             ELSE /\ attempt' = attempt + 1
                  /\ pc' = "while"
                  /\ UNCHANGED <<result, failed>>

\* one turn of the while loop up to the critique call: generate_code_for_step
\* returns a snippet, safe_exec runs it, and an execution error is judged at
\* once; print(f"... {output}") (solve_complex_query) and str(output) (the
\* other two) raise on an int too long to convert
Generate ==
  /\ pc = "while"
  /\ LoopContinues(attempt)
  /\ \E c \in Snippets : \E run \in {SafeExecRun(c, intermediate_results)} :
          /\ calls' = [calls EXCEPT !.generate = @ + 1, !.safe_exec = @ + 1]
          /\ sandbox' = [ran |-> run.ran, fault |-> run.fault, raised |-> run.raised]
          /\ IF run.raised
             THEN /\ pc' = "done"
                  /\ result' = Raised(driver)
                  /\ failed' = "safe_exec"
                  /\ intermediate_results' = run.context
                  /\ UNCHANGED <<attempt, code, output, feedback, stream, verdict>>
             ELSE IF StrRaises(run.out)
             THEN /\ pc' = "done"
                  /\ result' = Raised(driver)
                  /\ failed' = "str"
                  /\ intermediate_results' = run.context
                  /\ UNCHANGED <<attempt, code, output, feedback, stream, verdict>>
             ELSE IF IsExecutionError(run.out)
             THEN Judge(ExecutionFailed(run.out), run.out, run.context)
             ELSE /\ pc' = "critique"
                  /\ code' = c
                  /\ output' = run.out
                  /\ intermediate_results' = run.context
                  /\ UNCHANGED <<attempt, feedback, stream, verdict, result, failed>>
  /\ UNCHANGED <<driver, plan, step>>
  /\ UNCHANGED aside

\* generate_code_for_step raises: no driver handles it inside the loop
GenerateFails ==
  /\ pc = "while"
  /\ LoopContinues(attempt)
  /\ calls' = [calls EXCEPT !.generate = @ + 1]
  /\ failed' = "generate"
  /\ result' = Raised(driver)
  /\ pc' = "done"
  /\ UNCHANGED <<sandbox, driver, plan, step, attempt, code, output, feedback, intermediate_results,
                 stream, verdict>>
  /\ UNCHANGED aside

\* self_critique_output returns a feedback text
Critique ==
  /\ pc = "critique"
  /\ calls' = [calls EXCEPT !.critique = @ + 1]
  /\ \E fb \in Feedbacks : Judge(fb, output, intermediate_results)
  /\ UNCHANGED <<sandbox, driver, plan, step>>
  /\ UNCHANGED aside

\* self_critique_output raises
CritiqueFails ==
  /\ pc = "critique"
  /\ calls' = [calls EXCEPT !.critique = @ + 1]
  /\ failed' = "critique"
  /\ result' = Raised(driver)
  /\ pc' = "done"
  /\ UNCHANGED <<sandbox, driver, plan, step, attempt, code, output, feedback, intermediate_results,
                 stream, verdict>>
  /\ UNCHANGED aside

\* the else clause of the while loop: no attempt was accepted
Exhausted ==
  /\ pc = "while"
  /\ ~LoopContinues(attempt)
  /\ intermediate_results' = DictSet(intermediate_results, StepKey(step.step_num), FAILED_TO_REFINE)
  /\ verdict' = "exhausted"
  /\ pc' = "for"
  /\ UNCHANGED <<sandbox, driver, plan, step, attempt, code, output, feedback, result, stream, calls, failed>>
  /\ UNCHANGED aside

\* after the last step: synthesize_answer returns the final answer
Synthesize ==
  /\ pc = "for"
  /\ plan = <<>>
  /\ calls' = [calls EXCEPT !.synthesize = @ + 1]
  /\ stream' = Yield(driver, <<"final_answer", "[DONE]">>)
  /\ result' = "returned"
  /\ pc' = "done"
  /\ UNCHANGED <<sandbox, driver, plan, step, attempt, code, output, feedback, intermediate_results,
                 verdict, failed>>
  /\ UNCHANGED aside

\* synthesize_answer raises
SynthesizeFails ==
  /\ pc = "for"
  /\ plan = <<>>
  /\ calls' = [calls EXCEPT !.synthesize = @ + 1]
  /\ failed' = "synthesize"
  /\ result' = Raised(driver)
  /\ pc' = "done"
  /\ UNCHANGED <<sandbox, driver, plan, step, attempt, code, output, feedback, intermediate_results,
                 stream, verdict>>
  /\ UNCHANGED aside

Next ==
  \/ Decompose \/ DecomposeFails
  \/ NextStep
  \/ Generate \/ GenerateFails
  \/ Critique \/ CritiqueFails
  \/ Exhausted
  \/ Synthesize \/ SynthesizeFails

Spec == Init /\ [][Next]_vars

\* the same drivers with collaborators that answer from the rarer repertoire
EdgeInit ==
  /\ driver \in Drivers
  /\ pc = "decompose"
  /\ plan = <<>>
  /\ step = NoStep
  /\ attempt = 0
  /\ code = NoCode
  /\ output = NoneV
  /\ feedback = NoText
  /\ intermediate_results = EmptyDict
  /\ result = "running"
  /\ stream = <<>>
  /\ calls = NoCalls
  /\ sandbox = NoRun
  /\ verdict = "none"
  /\ failed = "none"
  /\ replies = "edge"
  /\ history = {}
  /\ llm = NoLlm

EdgeSpec == EdgeInit /\ [][Next]_vars



\* ------------------------------------------------- the sandbox on its own
\* safe_exec called directly, on more snippets and on the contexts the drivers
\* can build
SandboxSnippets ==
  Snippets \cup {CodeDivZero, CodeUndefined, CodeMinusOne, CodeUnparsable, CodeLateFault,
                 CodeOverwrite, CodeString, CodePrint, CodeUnaryPlus, CodeOperators, CodeHalf,
                 CodeCopyStep, CodeCopyFeedback}

\* contexts of the kinds the drivers build: step results (a number, None, the
\* sentinel) and the two retry hints
Scopes ==
  LET results == {IntV(14), FloatV(7, 2), NoneV, FAILED_TO_REFINE}
      bare == {EmptyDict} \cup {DictSet(EmptyDict, StepKey(1), v) : v \in results}
      hinted == {DictSet(c, LAST_FEEDBACK, StrV(<<"E","X","E","C","U","T","I","O","N","_","E","R","R","O","R",":"," ","u","n","c","l","e","a","r">>)) : c \in bare}
  IN bare \cup hinted \cup {DictSet(c, EXPECTED_CORRECTION, FloatV(83, 2)) : c \in hinted}

SandboxInit ==
  /\ driver = "safe_exec"
  /\ pc = "sandbox"
  /\ plan = <<>>
  /\ step = NoStep
  /\ attempt = 0
  /\ code = NoCode
  /\ output = NoneV
  /\ feedback = NoText
  /\ intermediate_results \in Scopes
  /\ result = "running"
  /\ stream = <<>>
  /\ calls = NoCalls
  /\ sandbox = NoRun
  /\ verdict = "none"
  /\ failed = "none"
  /\ replies = "plain"
  /\ history = {}
  /\ llm = NoLlm

\* output = safe_exec(code, intermediate_results), one call after another
SandboxCall ==
  /\ pc = "sandbox"
  /\ calls.safe_exec < MaxSandboxCalls
  /\ \E c \in SandboxSnippets : \E run \in {SafeExecRun(c, intermediate_results)} :
          /\ code' = c
          /\ output' = run.out
          /\ sandbox' = [ran |-> run.ran, fault |-> run.fault, raised |-> run.raised]
          /\ intermediate_results' = run.context
          /\ history' = history \cup {[code |-> c, context |-> intermediate_results, out |-> run.out]}
  /\ calls' = [calls EXCEPT !.safe_exec = @ + 1]
  /\ UNCHANGED <<driver, pc, plan, step, attempt, feedback, result, stream, verdict, failed,
                 replies, llm>>

SandboxNext == SandboxCall

SandboxSpec == SandboxInit /\ [][SandboxNext]_vars

\* ------------------------------------------------------------- _call_llm
_MAX_RETRIES == 3
_BACKOFF_SECONDS == 2

\* DEFAULT_MODEL, FALLBACK_MODEL and a model named by the caller
Models == {"DEFAULT_MODEL", "FALLBACK_MODEL", "caller's model"}
FALLBACK_MODEL == "FALLBACK_MODEL"

\* what requests.post meets: the status code of the response, or no response
\* at all (a connection failure or a timeout, which is no HTTPError)
NO_RESPONSE == 0
StatusCodes == {200, 400, 401, 404, 429, 500, 502, 503, 504}
Replies == StatusCodes \cup {NO_RESPONSE}

\* resp.raise_for_status() raises HTTPError
RaisesForStatus(status_code) == status_code >= 400

\* bool(exc.response): requests.Response.__bool__ returns Response.ok, which is
\* False for the response of every HTTPError
ResponseIsTrue(status_code) == ~RaisesForStatus(status_code)

\* None, for status
NoStatus == -1
\* status = exc.response.status_code if exc.response else None
StatusSeen(status_code) == IF ResponseIsTrue(status_code) THEN status_code ELSE NoStatus

\* a test that takes every status for retryable
IsRetryableAlways(status) == TRUE
\* is_retryable = status in {429, 500, 502, 503, 504}
IsRetryable(status) == status \in {429, 500, 502, 503, 504}

\* the payload of one request
Payload(frame) ==
  [model |-> frame.chosen_model, stream |-> frame.stream,
   response_format |-> frame.response_format, provider |-> frame.response_format]

LlmInit ==
  /\ driver = "_call_llm"
  /\ pc = "post"
  /\ llm \in [chosen_model : Models, response_format : BOOLEAN, stream : BOOLEAN, attempt : {0},
              requests : {<<>>}, slept : {0}]
  /\ plan = <<>>
  /\ step = NoStep
  /\ attempt = 0
  /\ code = NoCode
  /\ output = NoneV
  /\ feedback = NoText
  /\ intermediate_results = EmptyDict
  /\ result = "running"
  /\ stream = <<>>
  /\ calls = NoCalls
  /\ sandbox = NoRun
  /\ verdict = "none"
  /\ failed = "none"
  /\ replies = "plain"
  /\ history = {}

\* one turn of for attempt in range(_MAX_RETRIES): the request, and what is
\* made of its reply
Post ==
  /\ pc = "post"
  /\ llm.attempt < _MAX_RETRIES
  /\ \E status_code \in Replies :
       LET sent == [llm EXCEPT !.requests = Append(@, [payload |-> Payload(llm), status_code |-> status_code])]
           status == StatusSeen(status_code)
       IN IF status_code = NO_RESPONSE
          THEN /\ llm' = sent
               /\ result' = "raised"
               /\ failed' = "ConnectionError"
               /\ pc' = "done"
          ELSE IF ~RaisesForStatus(status_code)
          THEN /\ llm' = sent
               /\ result' = "returned"
               /\ failed' = "none"
               /\ pc' = "done"
          ELSE IF ~IsRetryable(status)
          THEN /\ llm' = sent
               /\ result' = "raised"
               /\ failed' = "HTTPError"
               /\ pc' = "done"
          ELSE LET swapped == IF llm.chosen_model # FALLBACK_MODEL /\ llm.attempt = 0
                              THEN [sent EXCEPT !.chosen_model = FALLBACK_MODEL] ELSE sent
               IN IF llm.attempt = _MAX_RETRIES - 1
                  THEN /\ llm' = swapped
                       /\ result' = "raised"
                       /\ failed' = "HTTPError"
                       /\ pc' = "done"
                  ELSE /\ llm' = [swapped EXCEPT !.attempt = @ + 1,
                                                 !.slept = @ + _BACKOFF_SECONDS * (llm.attempt + 1)]
                       /\ pc' = "post"
                       /\ UNCHANGED <<result, failed>>
  /\ UNCHANGED <<driver, plan, step, attempt, code, output, feedback, intermediate_results, stream,
                 calls, sandbox, verdict, replies, history>>

LlmNext == Post

LlmSpec == LlmInit /\ [][LlmNext]_vars

\* ------------------------------------------------------------------ claims
RetryKinds == {"calculation", "data_lookup"}

\* the permanent entries of a context: all but the two retry hints
StepResults(ctx) ==
  [k \in DOMAIN ctx \ {LAST_FEEDBACK, EXPECTED_CORRECTION} |-> ctx[k]]

\* C1: a step of kind calculation or data_lookup gets at most 3 snippet
\* generation requests and at most 3 sandbox evaluations, whatever the driver
\* and whatever the collaborators answer.
C1_AtMostThreeAttempts ==
  step.type \in RetryKinds => calls.generate <= 3 /\ calls.safe_exec <= 3

\* a data_lookup step that used all three attempts and was given up
C1_ThreeAttemptsMade ==
  /\ step.type = "data_lookup"
  /\ calls.generate = 3
  /\ calls.safe_exec = 3
  /\ verdict = "exhausted"

\* C2: when attempt k is accepted the loop is left at once, with the Outcome
\* of that attempt stored under step_{ordinal}_result; while the driver stays
\* at the accepted step no generation, evaluation or critique call is made.
C2_AcceptEndsLoop ==
  [][/\ (pc = "critique" /\ verdict' = "accepted") =>
          /\ pc' = "for"
          /\ calls'.generate = attempt + 1
          /\ StepKey(step.step_num) \in DOMAIN intermediate_results'
          /\ intermediate_results'[StepKey(step.step_num)] = output
     /\ (verdict = "accepted" /\ plan' = plan) =>
          /\ calls'.generate = calls.generate
          /\ calls'.safe_exec = calls.safe_exec
          /\ calls'.critique = calls.critique]_vars

\* a step accepted on its second attempt, with the value of that attempt stored
C2_AcceptedOnSecondAttempt ==
  /\ verdict = "accepted"
  /\ attempt = 1
  /\ calls.generate = 2
  /\ StepKey(step.step_num) \in DOMAIN intermediate_results
  /\ intermediate_results[StepKey(step.step_num)] = IntV(14)

\* some step of the query was given up
SomeStepExhausted ==
  \E k \in DOMAIN intermediate_results : intermediate_results[k] = FAILED_TO_REFINE

\* C3: a step none of whose 3 attempts is accepted ends with the sentinel under
\* step_{ordinal}_result, and the query goes on: every later step is taken and
\* synthesize_answer is called.
C3_ExhaustedStepDoesNotAbort ==
  /\ verdict = "exhausted" =>
       /\ StepKey(step.step_num) \in DOMAIN intermediate_results
       /\ intermediate_results[StepKey(step.step_num)] = FAILED_TO_REFINE
  /\ (SomeStepExhausted /\ pc = "done") => calls.synthesize = 1

\* the feedback starts with "correct", whatever the case of its letters
CaseInsensitiveCorrect(fb) ==
  /\ Len(fb) >= 7
  /\ \A k \in 1..7 : fb[k] \in {<<"c","o","r","r","e","c","t">>[k], <<"C","O","R","R","E","C","T">>[k]}

\* a step of the driver in which an attempt gets its feedback and is judged
AttemptJudged ==
  \/ pc = "critique" /\ pc' \in {"for", "while"}
  \/ pc = "while" /\ pc' = "while" /\ calls'.safe_exec = calls.safe_exec + 1

\* C4: an attempt is accepted exactly when its feedback starts with "correct"
\* in any case of letters; any other feedback rejects it and leaves every
\* step_{ordinal}_result as it was.
C4_AcceptIffCorrectPrefix ==
  [][AttemptJudged =>
       /\ (verdict' = "accepted") <=> CaseInsensitiveCorrect(feedback')
       /\ ~CaseInsensitiveCorrect(feedback') =>
            /\ verdict' = "retrying"
            /\ StepResults(intermediate_results') = StepResults(intermediate_results)]_vars

\* an attempt rejected on a critique that only mentions the word
C4_RejectedOnAmbiguousText ==
  /\ feedback = FbNotCorrect
  /\ verdict = "retrying"
  /\ pc = "while"
  /\ StepKey(step.step_num) \notin DOMAIN intermediate_results

\* C5: an attempt whose evaluation faulted in the sandbox makes no critique
\* call; its feedback is "Execution failed: " followed by the error Outcome, it
\* is rejected and counted, and the loop goes back to its test, from which the
\* next call is a generation request.
C5_ExecutionErrorBypassesCritique ==
  [][/\ (calls'.safe_exec = calls.safe_exec + 1 /\ sandbox'.fault) =>
          /\ calls'.critique = calls.critique
          /\ pc' = "while"
          /\ StartsWith(feedback', <<"E","x","e","c","u","t","i","o","n"," ","f","a","i","l","e","d",":"," ","E","X","E","C","U","T","I","O","N","_","E","R","R","O","R",":"," ">>)
          /\ intermediate_results'[LAST_FEEDBACK] = StrV(feedback')
          /\ verdict' = "retrying"
          /\ attempt' = attempt + 1
          /\ StepResults(intermediate_results') = StepResults(intermediate_results)
     /\ (pc = "while" /\ attempt < 3) => calls'.generate = calls.generate + 1]_vars

\* the second attempt is about to start after the sandbox refused the first
C5_RetryAfterRefusedSnippet ==
  /\ pc = "while"
  /\ sandbox.fault
  /\ attempt = 1
  /\ calls.critique = 0
  /\ feedback = <<"E","x","e","c","u","t","i","o","n"," ","f","a","i","l","e","d",":"," ","E","X","E","C","U","T","I","O","N","_","E","R","R","O","R",":"," ","D","i","s","a","l","l","o","w","e","d"," ","P","y","t","h","o","n"," ","s","y","n","t","a","x",":"," ","C","a","l","l">>

\* the node kinds the sandbox is to accept: assignment, name read and write,
\* numeric literal, unary minus and the seven arithmetic operators
AllowedConstruct(node) ==
  \/ node.k \in {"Module", "Assign", "Name", "Load", "Store", "BinOp", "UnaryOp", "USub",
                 "Add", "Sub", "Mult", "Div", "FloorDiv", "Mod", "Pow"}
  \/ node.k = "Constant" /\ node.value.t \in {"int", "float"}

\* some node of the tree, at any depth, is not an allowed construct
RECURSIVE HasDisallowedConstruct(_)
HasDisallowedConstruct(node) ==
  \/ ~AllowedConstruct(node)
  \/ \E j \in 1..Len(Children(node)) : HasDisallowedConstruct(Children(node)[j])

IsErrorOutcome(out) == out.t = "str" /\ StartsWith(out.s, <<"E","X","E","C","U","T","I","O","N","_","E","R","R","O","R",":"," ">>)

\* C6: a snippet whose tree holds a disallowed construct anywhere gets an
\* execution-error Outcome and none of its statements is run, also when allowed
\* statements come first.
C6_DisallowedNeverEvaluated ==
  (calls.safe_exec >= 1 /\ code.k = "Module" /\ HasDisallowedConstruct(code)) =>
     IsErrorOutcome(output) /\ sandbox.ran = 0

\* print(result) after an allowed assignment: refused, nothing ran
C6_CallAfterAssignmentRefused ==
  /\ calls.safe_exec = 1
  /\ code = CodePrint
  /\ output = StrV(<<"E","X","E","C","U","T","I","O","N","_","E","R","R","O","R",":"," ","D","i","s","a","l","l","o","w","e","d"," ","P","y","t","h","o","n"," ","s","y","n","t","a","x",":"," ","E","x","p","r">>)
  /\ sandbox.ran = 0

\* C7: no exception leaves safe_exec; a parse failure, a refused construct and
\* a runtime fault (division by zero, undefined name, type mismatch) each come
\* back as "EXECUTION_ERROR: " followed by the exception's message.
C7_FaultsReturnedAsOutcome ==
  calls.safe_exec >= 1 =>
    /\ ~sandbox.raised
    /\ sandbox.fault => IsErrorOutcome(output)
    /\ code = CodeUnparsable =>
         output = StrV(<<"E","X","E","C","U","T","I","O","N","_","E","R","R","O","R",":"," ","'","(","'"," ","w","a","s"," ","n","e","v","e","r"," ","c","l","o","s","e","d"," ","(","<","u","n","k","n","o","w","n",">",","," ","l","i","n","e"," ","1",")">>)
    /\ code = CodeOsCall => output = StrV(<<"E","X","E","C","U","T","I","O","N","_","E","R","R","O","R",":"," ","D","i","s","a","l","l","o","w","e","d"," ","P","y","t","h","o","n"," ","s","y","n","t","a","x",":"," ","C","a","l","l">>)
    /\ code = CodeDivZero => output = StrV(<<"E","X","E","C","U","T","I","O","N","_","E","R","R","O","R",":"," ","d","i","v","i","s","i","o","n"," ","b","y"," ","z","e","r","o">>)
    /\ code = CodeLateFault =>
         output = StrV(<<"E","X","E","C","U","T","I","O","N","_","E","R","R","O","R",":"," ","i","n","t","e","g","e","r"," ","d","i","v","i","s","i","o","n"," ","o","r"," ","m","o","d","u","l","o"," ","b","y"," ","z","e","r","o">>)
    /\ code = CodeUndefined => output = StrV(<<"E","X","E","C","U","T","I","O","N","_","E","R","R","O","R",":"," ","n","a","m","e"," ","'","y","'"," ","i","s"," ","n","o","t"," ","d","e","f","i","n","e","d">>)
    /\ (code = CodeMinusOne /\ StepKey(1) \in DOMAIN intermediate_results
        /\ intermediate_results[StepKey(1)] = FAILED_TO_REFINE) =>
         output = StrV(<<"E","X","E","C","U","T","I","O","N","_","E","R","R","O","R",":"," ","u","n","s","u","p","p","o","r","t","e","d"," ","o","p","e","r","a","n","d"," ","t","y","p","e","(","s",")"," ","f","o","r"," ","-",":"," ","'","s","t","r","'"," ","a","n","d"," ","'","i","n","t","'">>)

\* a type mismatch on the sentinel of a failed step, returned as an Outcome
C7_TypeMismatchReturned ==
  /\ calls.safe_exec = 1
  /\ code = CodeMinusOne
  /\ sandbox.fault
  /\ ~sandbox.raised
  /\ output = StrV(<<"E","X","E","C","U","T","I","O","N","_","E","R","R","O","R",":"," ","u","n","s","u","p","p","o","r","t","e","d"," ","o","p","e","r","a","n","d"," ","t","y","p","e","(","s",")"," ","f","o","r"," ","-",":"," ","'","s","t","r","'"," ","a","n","d"," ","'","i","n","t","'">>)

\* C8: a raised failure of generate_code_for_step or self_critique_output does
\* not end the query in failure; only a failure of decompose_problem or of
\* synthesize_answer does.
C8_StepFailuresAbsorbed ==
  result \in {"exception", "error_response"} => failed \in {"decompose", "synthesize"}

\* what the driver's caller has received
InStream(kind) == \E k \in 1..Len(stream) : stream[k] = kind
ReceivedFailure == result \in {"exception", "error_response"} \/ InStream("error")
ReceivedResult ==
  \/ InStream("plan") \/ InStream("attempt") \/ InStream("final_answer")
  \/ driver # "solve_query_stream" /\ result = "returned"

\* C9: after a failure of decompose_problem no other collaborator and no
\* sandbox call is made, and after a failure of decompose_problem or of
\* synthesize_answer the caller has a failure and nothing of a result: no
\* plan, no attempt history, no final answer.
C9_FatalWithoutPartialResult ==
  /\ failed = "decompose" => calls = NoCalls
  /\ failed \in {"decompose", "synthesize"} => ReceivedFailure /\ ~ReceivedResult

\* C10: a step of kind final_synthesis, or of a kind the drivers do not know,
\* is passed over: no generation, evaluation or critique call is made for it
\* and no result is written for it.
C10_OnlyRetryKindsRun ==
  (step # NoStep /\ step.type \notin RetryKinds) =>
     /\ calls.generate = 0
     /\ calls.safe_exec = 0
     /\ calls.critique = 0
     /\ verdict = "skipped"

\* the calls of the remote collaborators
CollaboratorCalls == {"decompose", "generate", "critique", "synthesize"}

\* C11: a run in which decomposition succeeds and no collaborator call fails
\* takes the steps in plan order, ends, and calls synthesize_answer once,
\* after the last step: it never ends without the synthesis call, and the
\* call is made only when no step is left.
C11_RunEndsInSynthesis ==
  /\ calls.synthesize >= 1 => plan = <<>> /\ pc = "done" /\ calls.synthesize = 1
  /\ (pc = "done" /\ failed \notin CollaboratorCalls) =>
       /\ plan = <<>>
       /\ calls.synthesize = 1
       /\ result = "returned"

\* C12: a step_{ordinal}_result entry, once in the context, stays there with
\* the value it has, whatever the drivers do next; only last_feedback and
\* expected_correction are overwritten.
C12_StepResultsNeverChange ==
  [][\A k \in DOMAIN intermediate_results \ {LAST_FEEDBACK, EXPECTED_CORRECTION} :
       /\ k \in DOMAIN intermediate_results'
       /\ intermediate_results'[k] = intermediate_results[k]]_vars

\* a step of the driver in which safe_exec is called for an attempt
AttemptEvaluated == calls'.safe_exec = calls.safe_exec + 1

\* C13: a snippet that runs without binding result gives None and goes to the
\* critique; the "Execution failed" path is taken exactly for the Outcomes of
\* a sandbox rejection or runtime fault.
C13_ErrorPathOnlyForFaults ==
  [][AttemptEvaluated =>
       /\ (pc' = "critique" /\ code' = CodeNoResult) => output' = NoneV
       /\ (pc' = "while") <=> sandbox'.fault]_vars

\* the statuses the claim calls retryable
RetryableStatuses == {429, 500, 502, 503, 504}

\* C14: when the first request of a _call_llm call fails with status 429,
\* 500, 502, 503 or 504 the call goes on: every later request names the
\* fallback model, and the call raises such a failure only after its third
\* failed request.
C14_RetryableIsRetried ==
  (llm.requests # <<>> /\ llm.requests[1].status_code \in RetryableStatuses) =>
     /\ \A k \in 2..Len(llm.requests) : llm.requests[k].payload.model = FALLBACK_MODEL
     /\ (result = "raised" /\ llm.requests[Len(llm.requests)].status_code \in RetryableStatuses) =>
          Len(llm.requests) = 3

\* C15: a failure with a status outside 429, 500, 502, 503, 504 is raised at
\* once, with no request after it; a call makes at most 3 requests, every
\* request but the last failed, and the call ends by returning the response of
\* a successful last request or by raising.
C15_NonRetryableRaisedAtOnce ==
  driver = "_call_llm" =>
    /\ Len(llm.requests) <= 3
    /\ \A k \in 1..Len(llm.requests) :
         /\ k < Len(llm.requests) => llm.requests[k].status_code \in RetryableStatuses
         /\ llm.requests[k].status_code \notin RetryableStatuses \cup {200} =>
              k = Len(llm.requests) /\ result = "raised" /\ pc = "done"
    /\ pc = "done" => /\ result \in {"returned", "raised"}
                      /\ llm.requests # <<>>
                      /\ (result = "returned") <=> (llm.requests[Len(llm.requests)].status_code = 200)

\* a 404 raised after the one request
C15_NotFoundRaised ==
  /\ driver = "_call_llm"
  /\ pc = "done"
  /\ result = "raised"
  /\ Len(llm.requests) = 1
  /\ llm.requests[1].status_code = 404

C17_ContextUntouched ==
  [][AttemptEvaluated => intermediate_results' = intermediate_results]_vars

\* step_1_result = 7 and last_feedback = 0 ran on a context that holds both
\* keys, and the context holds what it held
C17_AssignedKeysKept ==
  /\ calls.safe_exec >= 1
  /\ code = CodeOverwrite
  /\ output = IntV(14)
  /\ StepKey(1) \in DOMAIN intermediate_results
  /\ intermediate_results[StepKey(1)] = FloatV(7, 2)
  /\ LAST_FEEDBACK \in DOMAIN intermediate_results
  /\ intermediate_results[LAST_FEEDBACK] = StrV(<<"E","X","E","C","U","T","I","O","N","_","E","R","R","O","R",":"," ","u","n","c","l","e","a","r">>)
  /\ RESULT \notin DOMAIN intermediate_results

\* the text holds a digit, hence a numeric token
HasNumericToken(fb) == \E k \in 1..Len(fb) : IsDigit(fb[k])

\* the entry of the context under a key, or "absent"
Entry(ctx, k) == IF k \in DOMAIN ctx THEN <<ctx[k]>> ELSE <<>>

\* C18: a rejected attempt overwrites last_feedback with its feedback text;
\* it overwrites expected_correction with the last numeric token of the text
\* exactly when the text starts with "Incorrect:" and holds a numeric token
\* ("Incorrect: should be 42 not 41.5" gives 41.5), and leaves it as it was
\* otherwise; in all three drivers.
C18_CorrectionFromFeedback ==
  [][(AttemptJudged /\ ~CaseInsensitiveCorrect(feedback')) =>
       /\ Entry(intermediate_results', LAST_FEEDBACK) = <<StrV(feedback')>>
       /\ IF StartsWith(feedback', <<"I","n","c","o","r","r","e","c","t",":">>) /\ HasNumericToken(feedback')
          THEN /\ EXPECTED_CORRECTION \in DOMAIN intermediate_results'
               /\ feedback' = FbIncorrectNumber =>
                    intermediate_results'[EXPECTED_CORRECTION] = FloatV(83, 2)
          ELSE Entry(intermediate_results', EXPECTED_CORRECTION)
                 = Entry(intermediate_results, EXPECTED_CORRECTION)]_vars

\* the arguments of the critique call the driver is about to make
PendingCritique == CritiqueArgs(step.description, output, intermediate_results)

\* step_{n}
HintKey(n) == <<"s","t","e","p","_">> \o NatStr(n)

\* C19: the expected-values hint of a critique call holds step_{n} with the
\* value of step_{n}_result for exactly the step results in the context that
\* are not the sentinel, and nothing else: not last_feedback, not
\* expected_correction, not a failed step.
C19_HintIsTrustedResults ==
  pc = "critique" =>
    LET hint == PendingCritique.expected_values
    IN /\ DOMAIN hint \subseteq {HintKey(n) : n \in Ordinals}
       /\ \A n \in Ordinals :
            /\ HintKey(n) \in DOMAIN hint <=>
                 /\ StepKey(n) \in DOMAIN intermediate_results
                 /\ intermediate_results[StepKey(n)] # FAILED_TO_REFINE
            /\ HintKey(n) \in DOMAIN hint => hint[HintKey(n)] = intermediate_results[StepKey(n)]

\* a critique call made with a failed step and a feedback in the context: the
\* hint is empty
C19_FailedStepLeftOut ==
  /\ pc = "critique"
  /\ StepKey(1) \in DOMAIN intermediate_results
  /\ intermediate_results[StepKey(1)] = FAILED_TO_REFINE
  /\ LAST_FEEDBACK \in DOMAIN intermediate_results
  /\ step.step_num = 2
  /\ PendingCritique.expected_values = EmptyDict

\* C20: a critique call is given the step's description, the Outcome as a
\* string, the query, the expected-values hint and the snippet evaluated in
\* the same attempt.
C20_CritiqueGetsSnippet ==
  pc = "critique" =>
    /\ PendingCritique.step_description = step.description
    /\ PendingCritique.output = PyStr(output)
    /\ PendingCritique.original_query = QUERY
    /\ PendingCritique.code_str = code

\* the driver is about to ask generate_code_for_step for a snippet
SnippetRequested == pc = "while" /\ LoopContinues(attempt)

\* C21: when a snippet is requested, a last_feedback or expected_correction
\* entry of the context handed to generate_code_for_step was written by an
\* earlier rejected attempt of the same step; on the first attempt of a step
\* the context holds neither.
C21_HintsFromSameStep ==
  SnippetRequested =>
    /\ LAST_FEEDBACK \in DOMAIN intermediate_results =>
         /\ attempt >= 1
         /\ intermediate_results[LAST_FEEDBACK] = StrV(feedback)
    /\ EXPECTED_CORRECTION \in DOMAIN intermediate_results => attempt >= 1

\* the event sequences of a finished stream (a run of attempt events is one
\* entry of the variable stream)
FinishedStreams ==
  {<<"error", "[DONE]">>,
   <<"plan", "final_answer", "[DONE]">>,
   <<"plan", "attempt", "final_answer", "[DONE]">>}

\* s is the beginning of t
IsPrefix(s, t) == Len(s) <= Len(t) /\ \A k \in 1..Len(s) : s[k] = t[k]

\* C22: the events of solve_query_stream are error and the terminator when
\* decomposition fails, else the plan, the attempts, the final answer and the
\* terminator; every stream, also one in which a generation, critique or
\* synthesis call fails, ends with the terminator.
C22_StreamWellFormed ==
  driver = "solve_query_stream" =>
    /\ \E t \in FinishedStreams : IsPrefix(stream, t)
    /\ pc = "done" => stream \in FinishedStreams

\* what a step of the driver stores under the key of the current step
StepResultStored ==
     /\ (verdict # "accepted" /\ verdict' = "accepted") =>
          /\ intermediate_results'[StepKey(step.step_num)] # FAILED_TO_REFINE
          /\ ~IsExecutionError(intermediate_results'[StepKey(step.step_num)])
     /\ (verdict # "exhausted" /\ verdict' = "exhausted") =>
          intermediate_results'[StepKey(step.step_num)] = FAILED_TO_REFINE
     /\ (verdict = verdict' /\ StepKey(step.step_num) \in DOMAIN intermediate_results') =>
          /\ StepKey(step.step_num) \in DOMAIN intermediate_results
          /\ intermediate_results'[StepKey(step.step_num)]
               = intermediate_results[StepKey(step.step_num)]

\* C23: an accepted step stores a result that is neither the sentinel nor an
\* execution-error Outcome, and a step stores the sentinel exactly when its
\* attempts are exhausted, whatever snippets and feedback texts come back.
C23_SentinelIffExhausted == [][StepResultStored]_vars

\* the two drivers of the web application
WebDrivers == {"solve_query_with_steps", "solve_query_stream"}
\* the web driver that is not d
OtherDriver(d) == CHOOSE o \in WebDrivers : o # d

\* a step of the driver that ends a rejected attempt
AttemptRejected ==
  /\ pc \in {"while", "critique"}
  /\ attempt' = attempt + 1 \/ (failed = "none" /\ failed' = "float")

\* the other web driver would take the same decisions in this step
OtherDriverDoesTheSame ==
  driver \in WebDrivers =>
       /\ (pc = "for" /\ plan # <<>>) =>
            (EntersRetryLoop(driver, Head(plan).type)
               <=> EntersRetryLoop(OtherDriver(driver), Head(plan).type))
       /\ AttemptRejected =>
            /\ CorrectionRaises(driver, feedback')
                 <=> CorrectionRaises(OtherDriver(driver), feedback')
            /\ intermediate_results'
                 = Rejected(OtherDriver(driver), intermediate_results, feedback')

\* C24: solve_query_with_steps and solve_query_stream do the same on the same
\* plan and the same replies: in every step one of them takes, the other, in
\* the same state, enters the retry loop for the same steps and leaves the
\* same context after a rejected attempt.
C24_WebDriversAgree == [][OtherDriverDoesTheSame]_vars
====
